---- MODULE Spec2Model ----
(***************************************************************************)
(* Report generation engine of data_log/reports/generate.py.              *)
(*                                                                         *)
(* A queryset is a sequence of rows in the order the store returns them   *)
(* (most recent first).  filter() is SelectSeq, qs[:n] is a prefix,       *)
(* count() is Len.  Both reads of timezone.now() inside one call of       *)
(* _records_to_report are taken at the same instant.  Grouped query       *)
(* results are sets of rows, quotients are exact [num, den] pairs.        *)
(* The log tables are written by the ingestion side only and stay as they *)
(* are while the orchestrators run.  wizard_id and unique_contributors    *)
(* are left out of the rows.                                              *)
(***************************************************************************)
EXTENDS Integers, Sequences, FiniteSets, TLC

\* ------------------------------------------------------------------ bounds
MaxLen == 3         \* longest record stream given to the window selector
MaxTs == 3          \* timestamps of the stream are 0..MaxTs
MaxNow == 4         \* the clock of a selector call is 0..MaxNow
MaxSpan == 2        \* report_timespan is 0..MaxSpan
MaxMin == 3         \* minimum_count is 0..MaxMin
MaxWindow == 2      \* longest window given to the report builders
MaxDrops == 2       \* most drop rows under one log row of such a window
MaxLogs == 2        \* log rows in the store, both log tables together
MaxTime == 2        \* the clock and the log timestamps of a run are 0..MaxTime
MaxRuns == 2        \* orchestrator runs started in one behaviour
MaxRunes == 2       \* most rune drop rows given to the rune aggregator
ReportTimespan == 1 \* report_timespan of the orchestrators, in clock units (two weeks)
MinimumCount == 1   \* minimum_count of the orchestrators (2500), scaled to the store

\* ------------------------------------------------------------------ state
VARIABLES
    arg,            \* arguments of the function under test (pure-function specifications)
    ret,            \* <<>> before the call, <<result>> after it
    dungeon_logs,   \* DungeonLog table with its drop rows, most recent first
    rift_logs,      \* RiftDungeonLog table with its drop rows, most recent first
    now,            \* timezone.now()
    reports,        \* LevelReport table, in insertion order
    pc,             \* where the running orchestrator is; "idle", "returned", "crashed" between runs
    content_type,   \* ContentType of the running orchestrator's log model
    todo,           \* levels the `for level in ...` loop has not finished
    local,          \* local variables of the loop body: level, records, all_records, report_data
    runs,           \* orchestrator runs started so far
    run_base,       \* number of LevelReport rows when the current run started
    audit           \* per LevelReport row: the run that made it, the clock at each window
                    \* selection, the ids of the log rows handed to the aggregators

store == <<dungeon_logs, rift_logs>>
proc == <<now, reports, pc, content_type, todo, local, runs, run_base, audit>>
vars == <<arg, ret, dungeon_logs, rift_logs, now, reports, pc, content_type, todo, local,
          runs, run_base, audit>>

\* Python's None and a present value.
None == <<>>
Some(v) == <<v>>

\* ------------------------------------------------------------------ querysets
Range(s) == {s[i] : i \in DOMAIN s}

\* The default ordering of a log queryset: most recent first.
IsOrdered(qs) == \A i \in 1..(Len(qs) - 1) : qs[i].timestamp >= qs[i + 1].timestamp

\* qs.filter(timestamp__gte=t)
filter_timestamp_gte(qs, t) == SelectSeq(qs, LAMBDA r : r.timestamp >= t)

\* qs[:n]
slice(qs, n) == SubSeq(qs, 1, IF n < Len(qs) THEN n ELSE Len(qs))

\* ------------------------------------------------------------------ 4.1 window selector
\* The time-bounded branch filtering with > where the code filters with >=.
_records_to_report_gt(qs, timezone_now, report_timespan, minimum_count) ==
    IF Len(filter_timestamp_gte(qs, timezone_now - report_timespan)) < minimum_count
    THEN LET results == slice(qs, minimum_count)
         IN  IF Len(results) > 0
             THEN filter_timestamp_gte(qs, results[Len(results)].timestamp)
             ELSE qs
    ELSE SelectSeq(qs, LAMBDA r : r.timestamp > timezone_now - report_timespan)

\* The count-bounded branch returning the slice itself.
_records_to_report_slice(qs, timezone_now, report_timespan, minimum_count) ==
    IF Len(filter_timestamp_gte(qs, timezone_now - report_timespan)) < minimum_count
    THEN slice(qs, minimum_count)
    ELSE filter_timestamp_gte(qs, timezone_now - report_timespan)

_records_to_report(qs, timezone_now, report_timespan, minimum_count) ==
    IF Len(filter_timestamp_gte(qs, timezone_now - report_timespan)) < minimum_count
    THEN LET results == slice(qs, minimum_count)
         IN  IF Len(results) > 0
             THEN LET earliest_record == results[Len(results)]
                  IN  filter_timestamp_gte(qs, earliest_record.timestamp)
             ELSE qs
    ELSE filter_timestamp_gte(qs, timezone_now - report_timespan)

\* ------------------------------------------------------------------ catalog
\* bestiary.models.GameItem and Monster rows the drop records refer to.  Display
\* attributes that are functions of the row (icon, slug, com2us_id) follow the name.
GameItem ==
    [X |-> [name |-> "Mana Stone", category |-> "currency"],
     Y |-> [name |-> "Rainbowmon", category |-> "monster"]]

Monster ==
    [M1 |-> [name |-> "Fairy", element |-> "water", base_stars |-> 3,
             family_id |-> 101, is_awakened |-> FALSE],
     M2 |-> [name |-> "Elucia", element |-> "water", base_stars |-> 3,
             family_id |-> 101, is_awakened |-> TRUE]]

CATEGORY_CURRENCY == "currency"

\* ------------------------------------------------------------------ drop records
\* A log row carries its drop rows (the rows whose `log` foreign key is the row):
\*   [type |-> "items", item, quantity]      [type |-> "monsters", monster, grade]
\*   [type |-> "monster_pieces", monster, quantity]
\*   [type |-> "runes", rune_type, slot, quality, stars, value]
\*   [type |-> "rune_crafts", craft_type, rune, quality]
\*   [type |-> "secret_dungeons", monster]
ItemDrop_RELATED_NAME == "items"
MonsterDrop_RELATED_NAME == "monsters"
MonsterPieceDrop_RELATED_NAME == "monster_pieces"
RuneDrop_RELATED_NAME == "runes"
RuneCraftDrop_RELATED_NAME == "rune_crafts"
DungeonSecretDungeonDrop_RELATED_NAME == "secret_dungeons"

RECURSIVE Flatten(_)
Flatten(ss) == IF ss = <<>> THEN <<>> ELSE Head(ss) \o Flatten(Tail(ss))

RECURSIVE SumSeq(_)
SumSeq(ns) == IF ns = <<>> THEN 0 ELSE Head(ns) + SumSeq(Tail(ns))

MinOf(S) == CHOOSE m \in S : \A n \in S : m <= n
MaxOf(S) == CHOOSE m \in S : \A n \in S : m >= n

\* n / d as the store's float division gives it, kept exact.
Frac(n, d) == [num |-> n, den |-> d]

\* drop_model.objects.filter(log__in=qs): the rows of one category under the logs of qs.
drops_of(qs, drop_type) ==
    Flatten([i \in 1..Len(qs) |->
        LET own == SelectSeq(qs[i].drops, LAMBDA d : d.type = drop_type)
        IN  [j \in 1..Len(own) |-> [log |-> qs[i].id, drop |-> own[j]]]])

\* Count('pk'), Min/Max/Sum('quantity') over the rows of one group.
Count(rows) == Len(rows)
Quantities(rows) == [j \in 1..Len(rows) |-> rows[j].drop.quantity]
Sum_quantity(rows) == SumSeq(Quantities(rows))
Min_quantity(rows) == MinOf(Range(Quantities(rows)))
Max_quantity(rows) == MaxOf(Range(Quantities(rows)))

\* qs.values(key).annotate(count=Count('pk')), given the key of every row: one
\* row per distinct key.  The result is kept as a set: rows of equal count come
\* in no fixed order.
group_count(keys) ==
    { [key |-> k, count |-> Len(SelectSeq(keys, LAMBDA x : x = k))] : k \in Range(keys) }

\* ------------------------------------------------------------------ 4.3 category aggregators
get_item_report(qs, total_log_count) ==
    IF Count(qs) = 0 THEN None
    ELSE Some({ LET g == SelectSeq(qs, LAMBDA r : r.drop.item = item)
                IN  [item |-> item,
                     name |-> GameItem[item].name,
                     count |-> Count(g),
                     min |-> Min_quantity(g),
                     max |-> Max_quantity(g),
                     avg |-> Frac(Sum_quantity(g), Count(g)),
                     drop_chance |-> Frac(Count(g) * 100, total_log_count),
                     avg_per_run |-> Frac(Sum_quantity(g), total_log_count)]
                : item \in {r.drop.item : r \in Range(qs)} })

get_monster_report(qs, total_log_count) ==
    IF Count(qs) = 0 THEN None
    ELSE Some(
        [monsters |-> [total |-> Count(qs),
                       data |-> group_count([i \in DOMAIN qs |-> qs[i].drop.monster])],
         family |-> [total |-> Count(qs),
                     data |-> group_count([i \in DOMAIN qs |->
                                 <<Monster[qs[i].drop.monster].family_id,
                                   Monster[qs[i].drop.monster].name>>])],
         nat_stars |-> [total |-> Count(qs),
                        data |-> { LET g == SelectSeq(qs, LAMBDA r :
                                              Monster[r.drop.monster].base_stars = stars)
                                   IN  [nat_stars |-> stars,
                                        count |-> Count(g),
                                        drop_chance |-> Frac(Count(g) * 100, total_log_count)]
                                   : stars \in {Monster[r.drop.monster].base_stars : r \in Range(qs)} }],
         element |-> [total |-> Count(qs),
                      data |-> group_count([i \in DOMAIN qs |-> Monster[qs[i].drop.monster].element])],
         awakened |-> [total |-> Count(qs),
                       data |-> group_count([i \in DOMAIN qs |-> Monster[qs[i].drop.monster].is_awakened])]])

get_monster_piece_report(qs, total_log_count) == "monster piece report"

\* data_log.util: num rounded down / up to a multiple of `multiple`.
floor_to_nearest(num, multiple) == (num \div multiple) * multiple
ceil_to_nearest(num, multiple) == ((num + multiple - 1) \div multiple) * multiple

\* range(start, stop, step) for a positive step
py_range(start, stop, step) ==
    IF stop <= start THEN <<>>
    ELSE [k \in 1..((stop - start + step - 1) \div step) |-> start + (k - 1) * step]

\* The exception a call raises, in the place of its return value.
Raise(e) == <<"raise", e>>

\* The bin of django_pivot's histogram a value is counted in: bins are left
\* endpoints, bin k takes bins[k] <= v < bins[k+1], the last bin every
\* v >= bins[-1]; a value below bins[0] is in no bin (None).
bin_of(v, bins) ==
    LET at == {k \in DOMAIN bins : bins[k] <= v /\ (k < Len(bins) => v < bins[k + 1])}
    IN  IF at = {} THEN None ELSE Some(bins[CHOOSE k \in at : TRUE])

\* histogram(qs, 'value', bins, slice_on='quality'): for every bin the count of
\* rows per quality, zero included.
histogram(qs, bins) ==
    [b \in Range(bins) |->
        [q \in {r.drop.quality : r \in Range(qs)} |->
            Count(SelectSeq(qs, LAMBDA r : r.drop.quality = q /\ bin_of(r.drop.value, bins) = Some(b)))]]

\* Lines 271-273 and the range of line 355: the left endpoints of the value bins.
value_bins(qs) ==
    LET values == {r.drop.value : r \in Range(qs)}
        min_value == floor_to_nearest(MinOf(values), 1000)
        max_value == ceil_to_nearest(MaxOf(values), 1000)
    IN  py_range(min_value, max_value, 500)

\* The occurrence tables of the rune report by stars, set, quality and slot, and
\* the sell value histogram.
get_rune_report(qs, total_log_count) ==
    IF Count(qs) = 0 THEN None
    ELSE Some(
        [stars |-> [total |-> Count(qs), data |-> group_count([i \in DOMAIN qs |-> qs[i].drop.stars])],
         type |-> [total |-> Count(qs), data |-> group_count([i \in DOMAIN qs |-> qs[i].drop.rune_type])],
         quality |-> [total |-> Count(qs), data |-> group_count([i \in DOMAIN qs |-> qs[i].drop.quality])],
         slot |-> [total |-> Count(qs), data |-> group_count([i \in DOMAIN qs |-> qs[i].drop.slot])],
         value |-> [width |-> 500, data |-> histogram(qs, value_bins(qs))]])

get_rune_craft_report(qs, total_log_count) == "rune craft report"

get_secret_dungeon_report(qs, total_log_count) == "secret dungeon report"

\* The keys of DROP_TYPES, in the order the dict is written.
DROP_TYPES_keys ==
    <<ItemDrop_RELATED_NAME, MonsterDrop_RELATED_NAME, MonsterPieceDrop_RELATED_NAME,
      RuneDrop_RELATED_NAME, RuneCraftDrop_RELATED_NAME, DungeonSecretDungeonDrop_RELATED_NAME>>

\* DROP_TYPES[key](qs, total_log_count)
DROP_TYPES(key, qs, total_log_count) ==
    CASE key = ItemDrop_RELATED_NAME -> get_item_report(qs, total_log_count)
      [] key = MonsterDrop_RELATED_NAME -> get_monster_report(qs, total_log_count)
      [] key = MonsterPieceDrop_RELATED_NAME -> Some(get_monster_piece_report(qs, total_log_count))
      [] key = RuneDrop_RELATED_NAME -> get_rune_report(qs, total_log_count)
      [] key = RuneCraftDrop_RELATED_NAME -> Some(get_rune_craft_report(qs, total_log_count))
      [] key = DungeonSecretDungeonDrop_RELATED_NAME -> Some(get_secret_dungeon_report(qs, total_log_count))

\* ------------------------------------------------------------------ 4.2 category resolver
DungeonLog == "dungeonlog"
RiftDungeonLog == "riftdungeonlog"

\* hasattr(qs.model, drop_type): the drop relations each log model declares.
has_drop_type(model, drop_type) ==
    \/ model = DungeonLog
    \/ model = RiftDungeonLog /\ drop_type \in {ItemDrop_RELATED_NAME, MonsterDrop_RELATED_NAME,
                                                RuneDrop_RELATED_NAME, RuneCraftDrop_RELATED_NAME}

\* A resolver that also yields the artifact drops of a dungeon log, a category
\* the dispatch table does not have.
get_drop_querysets_artifacts(model, qs) ==
    [keys |-> SelectSeq(DROP_TYPES_keys, LAMBDA k : has_drop_type(model, k))
                \o (IF model = DungeonLog THEN <<"artifacts">> ELSE <<>>),
     qs |-> [k \in {t \in Range(DROP_TYPES_keys) : has_drop_type(model, t)}
                    \cup (IF model = DungeonLog THEN {"artifacts"} ELSE {}) |->
                IF k = "artifacts" THEN <<>> ELSE drops_of(qs, k)]]

\* The dict drop_type -> queryset, as its keys in insertion order and its values.
get_drop_querysets(model, qs) ==
    [keys |-> SelectSeq(DROP_TYPES_keys, LAMBDA k : has_drop_type(model, k)),
     qs |-> [k \in {t \in Range(DROP_TYPES_keys) : has_drop_type(model, t)} |-> drops_of(qs, k)]]

\* ------------------------------------------------------------------ 4.4 summary composer
\* ' '.join(s.capitalize() for s in drop_type.split('_')).rstrip('s')
chart_item_name(drop_type) ==
    CASE drop_type = MonsterPieceDrop_RELATED_NAME -> "Monster Piece"
      [] drop_type = RuneDrop_RELATED_NAME -> "Rune"
      [] drop_type = RuneCraftDrop_RELATED_NAME -> "Rune Craft"
      [] drop_type = DungeonSecretDungeonDrop_RELATED_NAME -> "Secret Dungeon"

summary_chart_data(drop_type, qs) ==
    CASE drop_type = ItemDrop_RELATED_NAME ->
            LET shown == SelectSeq(qs, LAMBDA r :
                             GameItem[r.drop.item].category # CATEGORY_CURRENCY)
            IN  { [name |-> g.key, count |-> g.count] :
                  g \in group_count([i \in DOMAIN shown |-> GameItem[shown[i].drop.item].name]) }
      [] drop_type = MonsterDrop_RELATED_NAME ->
            { [name |-> <<g.key, "* Monster">>, count |-> g.count] :
              g \in group_count([i \in DOMAIN qs |-> qs[i].drop.grade]) }
      [] OTHER ->
            IF Count(qs) > 0 THEN {[name |-> chart_item_name(drop_type), count |-> Count(qs)]}
            ELSE {}

\* table_data of one category; a list is a set of rows, the rune table a dict.
summary_table_data(drop_type, qs, total_log_count) ==
    CASE drop_type = ItemDrop_RELATED_NAME ->
            { LET g == SelectSeq(qs, LAMBDA r : GameItem[r.drop.item].name = name)
              IN  [name |-> name,
                   count |-> Count(g),
                   min |-> Min_quantity(g),
                   max |-> Max_quantity(g),
                   avg |-> Frac(Sum_quantity(g), Count(g)),
                   drop_chance |-> Frac(Count(g) * 100, total_log_count),
                   avg_per_run |-> Frac(Sum_quantity(g), total_log_count)]
              : name \in {GameItem[r.drop.item].name : r \in Range(qs)} }
      [] drop_type = MonsterDrop_RELATED_NAME ->
            { LET g == SelectSeq(qs, LAMBDA r : r.drop.monster = m)
              IN  [name |-> Monster[m].name,
                   element |-> Monster[m].element,
                   is_awakened |-> Monster[m].is_awakened,
                   stars |-> Monster[m].base_stars,
                   count |-> Count(g),
                   drop_chance |-> Frac(Count(g) * 100, total_log_count)]
              : m \in {r.drop.monster : r \in Range(qs)} }
      [] drop_type = MonsterPieceDrop_RELATED_NAME ->
            { LET g == SelectSeq(qs, LAMBDA r : r.drop.monster = m)
              IN  [name |-> Monster[m].name,
                   element |-> Monster[m].element,
                   count |-> Count(g),
                   min |-> Min_quantity(g),
                   max |-> Max_quantity(g),
                   avg |-> Frac(Sum_quantity(g), Count(g))]
              : m \in {r.drop.monster : r \in Range(qs)} }
      [] drop_type = RuneDrop_RELATED_NAME ->
            [sets |-> group_count([i \in DOMAIN qs |-> qs[i].drop.rune_type]),
             slots |-> group_count([i \in DOMAIN qs |-> qs[i].drop.slot]),
             quality |-> group_count([i \in DOMAIN qs |-> qs[i].drop.quality])]
      [] drop_type = RuneCraftDrop_RELATED_NAME ->
            group_count([i \in DOMAIN qs |-> <<qs[i].drop.craft_type, qs[i].drop.rune, qs[i].drop.quality>>])
      [] drop_type = DungeonSecretDungeonDrop_RELATED_NAME ->
            { [name |-> Monster[g.key].name, element |-> Monster[g.key].element, count |-> g.count]
              : g \in group_count([i \in DOMAIN qs |-> qs[i].drop.monster]) }

\* `if table_data:` an empty list is left out, the rune dict never is.
table_data_truthy(drop_type, qs) == drop_type = RuneDrop_RELATED_NAME \/ Count(qs) > 0

\* The drop types the if / elif chain of the loop has a branch for (lines 40,
\* 64, 103, 117, 129, 140); any other reaches the raise of line 158.
summary_recognizes(drop_type) ==
    \/ drop_type = ItemDrop_RELATED_NAME
    \/ drop_type = MonsterDrop_RELATED_NAME
    \/ drop_type = MonsterPieceDrop_RELATED_NAME
    \/ drop_type = RuneDrop_RELATED_NAME
    \/ drop_type = RuneCraftDrop_RELATED_NAME
    \/ drop_type = DungeonSecretDungeonDrop_RELATED_NAME

\* The loop over drops.items() comes to a drop type without a branch.
summary_raises(drops) == \E i \in DOMAIN drops.keys : ~summary_recognizes(drops.keys[i])

get_report_summary(drops, total_log_count) ==
    IF summary_raises(drops) THEN Raise("NotImplementedError")
    ELSE
    [table |-> [k \in {t \in DOMAIN drops.qs : table_data_truthy(t, drops.qs[t])} |->
                    summary_table_data(k, drops.qs[k], total_log_count)],
     chart |-> [i \in 1..Len(drops.keys) |->
                    summary_chart_data(drops.keys[i], drops.qs[drops.keys[i]])]]

\* ------------------------------------------------------------------ per-level report
\* The loop `for key, qs in drops.items()` rebinds qs: the count handed to the
\* aggregator is the count of the category's drop rows.
level_drop_report(model, qs) ==
    LET drops == get_drop_querysets(model, qs)
    IN  IF summary_raises(drops) THEN get_report_summary(drops, Count(qs))
        ELSE
        [summary |-> get_report_summary(drops, Count(qs)),
         drops |-> [key \in DOMAIN drops.qs |->
                        DROP_TYPES(key, drops.qs[key], Count(drops.qs[key]))]]

\* ------------------------------------------------------------------ cross-grade summary
\* RiftDungeonLog.GRADE_CHOICES: (grade id, description), one per possible grade.
GRADE_CHOICES == <<<<1, "B">>, <<2, "A">>, <<3, "S">>>>

\* qs.filter(grade=grade_id)
filter_grade(qs, grade_id) == SelectSeq(qs, LAMBDA r : r.grade = grade_id)

\* drops[...].filter(log__in=grade_qs)
filter_log_in(rows, grade_qs) ==
    SelectSeq(rows, LAMBDA r : r.log \in {l.id : l \in Range(grade_qs)})

\* An aggregate over no rows is NULL.
NullIfEmpty(rows, v) == IF Count(rows) = 0 THEN None ELSE Some(v)

\* The cross-grade summary listing under a grade only what that grade dropped.
grade_summary_report_dropped(model, qs, grade_choices) ==
    LET drops == get_drop_querysets(model, qs)
        all_items == IF "items" \in DOMAIN drops.qs
                     THEN {r.drop.item : r \in Range(drops.qs["items"])} ELSE {}
        all_monsters == IF "monsters" \in DOMAIN drops.qs
                        THEN {r.drop.monster : r \in Range(drops.qs["monsters"])} ELSE {}
    IN  [g \in 1..Len(grade_choices) |->
            LET grade_qs == filter_grade(qs, grade_choices[g][1])
            IN  [grade |-> grade_choices[g][2],
                 drops |->
                    { LET result == SelectSeq(filter_log_in(drops.qs["items"], grade_qs),
                                              LAMBDA r : r.drop.item = item)
                      IN  [type |-> "item",
                           name |-> GameItem[item].name,
                           count |-> Count(result),
                           min |-> NullIfEmpty(result, Min_quantity(result)),
                           max |-> NullIfEmpty(result, Max_quantity(result)),
                           avg |-> NullIfEmpty(result, Frac(Sum_quantity(result), Count(result))),
                           drop_chance |-> Frac(Count(result) * 100, Count(qs)),
                           avg_per_run |-> NullIfEmpty(result, Frac(Sum_quantity(result), Count(qs)))]
                      : item \in {r.drop.item :
                                    r \in Range(filter_log_in(drops.qs["items"], grade_qs))} }
                    \cup
                    { LET result == SelectSeq(filter_log_in(drops.qs["monsters"], grade_qs),
                                              LAMBDA r : r.drop.monster = monster)
                      IN  [type |-> "monster",
                           name |-> Monster[monster].name,
                           stars |-> Monster[monster].base_stars,
                           count |-> Count(result),
                           drop_chance |-> Frac(Count(result) * 100, Count(qs))]
                      : monster \in {r.drop.monster :
                                       r \in Range(filter_log_in(drops.qs["monsters"], grade_qs))} }]]

grade_summary_report(model, qs, grade_choices) ==
    LET drops == get_drop_querysets(model, qs)
        all_items == IF "items" \in DOMAIN drops.qs
                     THEN {r.drop.item : r \in Range(drops.qs["items"])} ELSE {}
        all_monsters == IF "monsters" \in DOMAIN drops.qs
                        THEN {r.drop.monster : r \in Range(drops.qs["monsters"])} ELSE {}
    IN  [g \in 1..Len(grade_choices) |->
            LET grade_qs == filter_grade(qs, grade_choices[g][1])
            IN  [grade |-> grade_choices[g][2],
                 drops |->
                    { LET result == SelectSeq(filter_log_in(drops.qs["items"], grade_qs),
                                              LAMBDA r : r.drop.item = item)
                      IN  [type |-> "item",
                           name |-> GameItem[item].name,
                           count |-> Count(result),
                           min |-> NullIfEmpty(result, Min_quantity(result)),
                           max |-> NullIfEmpty(result, Max_quantity(result)),
                           avg |-> NullIfEmpty(result, Frac(Sum_quantity(result), Count(result))),
                           drop_chance |-> Frac(Count(result) * 100, Count(qs)),
                           avg_per_run |-> NullIfEmpty(result, Frac(Sum_quantity(result), Count(qs)))]
                      : item \in all_items }
                    \cup
                    { LET result == SelectSeq(filter_log_in(drops.qs["monsters"], grade_qs),
                                              LAMBDA r : r.drop.monster = monster)
                      IN  [type |-> "monster",
                           name |-> Monster[monster].name,
                           stars |-> Monster[monster].base_stars,
                           count |-> Count(result),
                           drop_chance |-> Frac(Count(result) * 100, Count(qs))]
                      : monster \in all_monsters }]]

\* ------------------------------------------------------------------ 4.5 orchestrators
NoLocal == [level |-> 0]

\* An empty store and no orchestrator: the state of the pure-function specifications.
NoStore == dungeon_logs = <<>> /\ rift_logs = <<>>
NoRun ==
    /\ now = 0 /\ reports = <<>> /\ pc = "idle" /\ content_type = DungeonLog
    /\ todo = <<>> /\ local = NoLocal /\ runs = 0 /\ run_base = 0 /\ audit = <<>>

Levels == {1, 2}

\* Level.objects.filter(pk__in=levels): the levels that have a row in the log table.
levels_of(logs) ==
    LET pks == {r.level : r \in Range(logs)}
    IN  SelectSeq(<<1, 2>>, LAMBDA l : l \in pks)

\* The level filter without success=True.
filter_level_any(logs, level) == SelectSeq(logs, LAMBDA r : r.level = level)

\* objects.filter(level=level, success=True) and objects.filter(level=level, grade=grade)
filter_level_success(logs, level) == SelectSeq(logs, LAMBDA r : r.level = level /\ r.success)
filter_level_grade(logs, level, grade) ==
    SelectSeq(logs, LAMBDA r : r.level = level /\ r.grade = grade)

\* all_records | records: the rows of the table either queryset selects.
qs_or(logs, a, b) ==
    SelectSeq(logs, LAMBDA r : r.id \in {x.id : x \in Range(a)} \cup {x.id : x \in Range(b)})

\* log_count taken from every row the level has in the log table.
create_LevelReport_total(level, ctype, records, report_data) ==
    [id |-> Len(reports) + 1,
     level |-> level,
     content_type |-> ctype,
     start_timestamp |-> records[Len(records)].timestamp,
     end_timestamp |-> records[1].timestamp,
     log_count |-> Len(SelectSeq(IF ctype = "dungeonlog" THEN dungeon_logs ELSE rift_logs,
                                 LAMBDA r : r.level = level)),
     report |-> report_data]

\* The row LevelReport.objects.create(...) inserts.
create_LevelReport(level, ctype, records, report_data) ==
    [id |-> Len(reports) + 1,
     level |-> level,
     content_type |-> ctype,
     start_timestamp |-> records[Count(records)].timestamp,
     end_timestamp |-> records[1].timestamp,
     log_count |-> Count(records),
     report |-> report_data]

Ids(qs) == {r.id : r \in Range(qs)}

generate_dungeon_log_reports ==
    /\ pc \in {"idle", "returned", "crashed"}
    /\ runs < MaxRuns
    /\ pc' = "dungeon"
    /\ content_type' = DungeonLog
    /\ todo' = levels_of(dungeon_logs)
    /\ local' = NoLocal
    /\ runs' = runs + 1
    /\ run_base' = Len(reports)
    /\ UNCHANGED <<arg, ret, store, now, reports, audit>>

\* The window taken only from rows at least as recent as the level's last report.
DungeonRecords_since_last(level) ==
    LET mine == {i \in 1..Len(reports) :
                    reports[i].content_type = "dungeonlog" /\ reports[i].level = level}
        since == IF mine = {} THEN 0
                 ELSE reports[CHOOSE i \in mine : \A j \in mine : j <= i].end_timestamp
    IN  _records_to_report(
            SelectSeq(dungeon_logs, LAMBDA r : r.level = level /\ r.success /\ r.timestamp >= since),
            now, ReportTimespan, MinimumCount)

\* Lines 465-468: select the window, and aggregate it when it is not empty.
DungeonRecords(level) ==
    _records_to_report(filter_level_success(dungeon_logs, level), now, ReportTimespan, MinimumCount)

DungeonLevel ==
    /\ pc = "dungeon"
    /\ todo # <<>>
    /\ LET level == Head(todo)
           records == DungeonRecords(level)
       IN  IF Count(records) > 0
           THEN /\ local' = [level |-> level, records |-> records, nows |-> <<now>>,
                             report_data |-> level_drop_report(DungeonLog, records)]
                /\ pc' = "dungeon_create"
                /\ UNCHANGED todo
           ELSE /\ todo' = Tail(todo)
                /\ UNCHANGED <<local, pc>>
    /\ UNCHANGED <<arg, ret, store, now, reports, content_type, runs, run_base, audit>>

\* update_or_create: the level's earlier report is overwritten in place.
DungeonCreate_replace ==
    /\ pc = "dungeon_create"
    /\ LET row == [id |-> Len(reports) + 1, level |-> local.level, content_type |-> content_type,
                   start_timestamp |-> local.records[Len(local.records)].timestamp,
                   end_timestamp |-> local.records[1].timestamp,
                   log_count |-> Len(local.records), report |-> local.report_data]
           entry == [run |-> runs, nows |-> local.nows,
                     aggregated |-> {r.id : r \in Range(local.records)}]
           old == {i \in 1..Len(reports) :
                      reports[i].content_type = content_type /\ reports[i].level = local.level}
       IN  IF old = {}
           THEN reports' = Append(reports, row) /\ audit' = Append(audit, entry)
           ELSE LET i == CHOOSE k \in old : TRUE
                IN  /\ reports' = [reports EXCEPT ![i] = [row EXCEPT !.id = i]]
                    /\ audit' = [audit EXCEPT ![i] = entry]
    /\ todo' = Tail(todo)
    /\ local' = [level |-> 0]
    /\ pc' = "dungeon"
    /\ UNCHANGED <<arg, ret, store, now, content_type, runs, run_base>>

\* Lines 470-478.
DungeonCreate ==
    /\ pc = "dungeon_create"
    /\ reports' = Append(reports,
                    create_LevelReport(local.level, content_type, local.records, local.report_data))
    /\ audit' = Append(audit, [run |-> runs, nows |-> local.nows, aggregated |-> Ids(local.records)])
    /\ todo' = Tail(todo)
    /\ local' = NoLocal
    /\ pc' = "dungeon"
    /\ UNCHANGED <<arg, ret, store, now, content_type, runs, run_base>>

DungeonReturn ==
    /\ pc = "dungeon"
    /\ todo = <<>>
    /\ pc' = "returned"
    /\ UNCHANGED <<arg, ret, store, now, reports, content_type, todo, local, runs, run_base, audit>>

generate_rift_dungeon_reports ==
    /\ pc \in {"idle", "returned", "crashed"}
    /\ runs < MaxRuns
    /\ pc' = "rift"
    /\ content_type' = RiftDungeonLog
    /\ todo' = levels_of(rift_logs)
    /\ local' = NoLocal
    /\ runs' = runs + 1
    /\ run_base' = Len(reports)
    /\ UNCHANGED <<arg, ret, store, now, reports, audit>>

\* Lines 486-487.
RiftLevel ==
    /\ pc = "rift"
    /\ todo # <<>>
    /\ local' = [level |-> Head(todo), all_records |-> <<>>, report_data |-> <<>>,
                 grades |-> GRADE_CHOICES, nows |-> <<>>, aggregated |-> {}]
    /\ pc' = "rift_grade"
    /\ UNCHANGED <<arg, ret, store, now, reports, content_type, todo, runs, run_base, audit>>

RiftRecords(level, grade) ==
    _records_to_report(filter_level_grade(rift_logs, level, grade), now, ReportTimespan, MinimumCount)

\* One pass of the grade loop that saves the payload built so far.
RiftGrade_persist ==
    /\ pc = "rift_grade"
    /\ local.grades # <<>>
    /\ LET grade == Head(local.grades)[1]
           grade_desc == Head(local.grades)[2]
           records == RiftRecords(local.level, grade)
           grade_report == IF Len(records) > 0
                           THEN <<level_drop_report("riftdungeonlog", records)>>
                           ELSE <<>>
           next == [local EXCEPT
                        !.report_data = Append(@, [grade |-> grade_desc, report |-> grade_report]),
                        !.all_records = qs_or(rift_logs, @, records),
                        !.grades = Tail(@),
                        !.nows = Append(@, now),
                        !.aggregated = @ \cup {r.id : r \in Range(records)}]
       IN  /\ local' = next
           /\ IF Len(next.all_records) > 0
              THEN /\ reports' = Append(reports,
                                     [id |-> Len(reports) + 1, level |-> local.level,
                                      content_type |-> content_type,
                                      start_timestamp |-> next.all_records[Len(next.all_records)].timestamp,
                                      end_timestamp |-> next.all_records[1].timestamp,
                                      log_count |-> Len(next.all_records),
                                      report |-> next.report_data])
                   /\ audit' = Append(audit, [run |-> runs, nows |-> next.nows,
                                              aggregated |-> next.aggregated])
              ELSE UNCHANGED <<reports, audit>>
    /\ UNCHANGED <<arg, ret, store, now, pc, content_type, todo, runs, run_base>>

\* One pass of the grade loop that leaves a grade without records out of the payload.
RiftGrade_skip_empty ==
    /\ pc = "rift_grade"
    /\ local.grades # <<>>
    /\ LET grade == Head(local.grades)[1]
           grade_desc == Head(local.grades)[2]
           records == RiftRecords(local.level, grade)
       IN  local' = [local EXCEPT
                        !.report_data =
                            IF Len(records) > 0
                            THEN Append(@, [grade |-> grade_desc,
                                            report |-> <<level_drop_report("riftdungeonlog", records)>>])
                            ELSE @,
                        !.all_records = qs_or(rift_logs, @, records),
                        !.grades = Tail(@),
                        !.nows = Append(@, now),
                        !.aggregated = @ \cup {r.id : r \in Range(records)}]
    /\ UNCHANGED <<arg, ret, store, now, reports, pc, content_type, todo, runs, run_base, audit>>

\* Lines 490-502: one pass of the loop over GRADE_CHOICES.
RiftGrade ==
    /\ pc = "rift_grade"
    /\ local.grades # <<>>
    /\ LET grade == Head(local.grades)[1]
           grade_desc == Head(local.grades)[2]
           records == RiftRecords(local.level, grade)
           grade_report == IF Count(records) > 0
                           THEN Some(level_drop_report(RiftDungeonLog, records))
                           ELSE None
       IN  local' = [local EXCEPT
                        !.report_data = Append(@, [grade |-> grade_desc, report |-> grade_report]),
                        !.all_records = qs_or(rift_logs, @, records),
                        !.grades = Tail(@),
                        !.nows = Append(@, now),
                        !.aggregated = @ \cup Ids(records)]
    /\ UNCHANGED <<arg, ret, store, now, reports, pc, content_type, todo, runs, run_base, audit>>

\* Lines 504-509.
RiftSummary ==
    /\ pc = "rift_grade"
    /\ local.grades = <<>>
    /\ IF Count(local.all_records) > 0
       THEN /\ local' = [local EXCEPT
                            !.report_data = Append(@,
                                [grade |-> "summary",
                                 report |-> Some(grade_summary_report(RiftDungeonLog,
                                                     local.all_records, GRADE_CHOICES))])]
            /\ pc' = "rift_create"
            /\ UNCHANGED todo
       ELSE /\ todo' = Tail(todo)
            /\ local' = NoLocal
            /\ pc' = "rift"
    /\ UNCHANGED <<arg, ret, store, now, reports, content_type, runs, run_base, audit>>

\* Lines 511-519.
RiftCreate ==
    /\ pc = "rift_create"
    /\ reports' = Append(reports,
                    create_LevelReport(local.level, content_type, local.all_records, local.report_data))
    /\ audit' = Append(audit, [run |-> runs, nows |-> local.nows, aggregated |-> local.aggregated])
    /\ todo' = Tail(todo)
    /\ local' = NoLocal
    /\ pc' = "rift"
    /\ UNCHANGED <<arg, ret, store, now, content_type, runs, run_base>>

RiftReturn ==
    /\ pc = "rift"
    /\ todo = <<>>
    /\ pc' = "returned"
    /\ UNCHANGED <<arg, ret, store, now, reports, content_type, todo, local, runs, run_base, audit>>

\* The process is killed: its locals are gone, the LevelReport table stays as it is.
Crash ==
    /\ pc \notin {"idle", "returned", "crashed"}
    /\ pc' = "crashed"
    /\ local' = NoLocal
    /\ UNCHANGED <<arg, ret, store, now, reports, content_type, todo, runs, run_base, audit>>

\* Time passes.  The clock is read when a window is selected, so a tick while a
\* finished report_data waits for its insert is the tick right after the insert.
Tick ==
    /\ now < MaxTime
    /\ pc \notin {"dungeon_create", "rift_create"}
    /\ now' = now + 1
    /\ UNCHANGED <<arg, ret, store, reports, pc, content_type, todo, local, runs, run_base, audit>>

\* Drop rows one log row may carry in the orchestrated store.
LogDrops ==
    { <<>>,
      <<[type |-> "items", item |-> "X", quantity |-> 1]>> }

\* Drop rows one rift log row may carry.
RiftLogDrops ==
    LogDrops \cup
    { <<[type |-> "monsters", monster |-> "M1", grade |-> 3]>> }

DungeonRows == [level : Levels, success : BOOLEAN, timestamp : 0..MaxTime, drops : LogDrops]
\* grade 0 is a row without a grade (an attempt that was not completed)
RiftRows == [level : Levels, grade : 0..Len(GRADE_CHOICES), timestamp : 0..MaxTime, drops : RiftLogDrops]

WithIds(rows, base) ==
    [i \in 1..Len(rows) |-> [k \in DOMAIN rows[i] \cup {"id"} |->
                                IF k = "id" THEN base + i ELSE rows[i][k]]]

Tables(Rows, n) == { t \in [1..n -> Rows] : IsOrdered(t) }

Init ==
    /\ arg = None
    /\ ret = None
    /\ \E nd \in 0..MaxLogs : \E nr \in 0..(MaxLogs - nd) :
          /\ dungeon_logs \in { WithIds(t, 0) : t \in Tables(DungeonRows, nd) }
          /\ rift_logs \in { WithIds(t, nd) : t \in Tables(RiftRows, nr) }
    /\ now \in 0..MaxTime
    /\ \A r \in Range(dungeon_logs) \cup Range(rift_logs) : r.timestamp <= now
    /\ reports = <<>>
    /\ pc = "idle"
    /\ content_type = DungeonLog
    /\ todo = <<>>
    /\ local = NoLocal
    /\ runs = 0
    /\ run_base = 0
    /\ audit = <<>>

Next ==
    \/ generate_dungeon_log_reports
    \/ DungeonLevel
    \/ DungeonCreate
    \/ DungeonReturn
    \/ generate_rift_dungeon_reports
    \/ RiftLevel
    \/ RiftGrade
    \/ RiftSummary
    \/ RiftCreate
    \/ RiftReturn
    \/ Crash
    \/ Tick

Spec == Init /\ [][Next]_vars

\* ------------------------------------------------------------------ orchestrator properties
GradeIds == {GRADE_CHOICES[g][1] : g \in 1..Len(GRADE_CHOICES)}

\* The log table an orchestrator reads, and the rows of a level it may report on.
LogTable(ctype) == IF ctype = DungeonLog THEN dungeon_logs ELSE rift_logs
EligibleRows(ctype, level) ==
    IF ctype = DungeonLog
    THEN {r \in Range(dungeon_logs) : r.level = level /\ r.success}
    ELSE {r \in Range(rift_logs) : r.level = level /\ r.grade \in GradeIds}

\* The LevelReport rows of one target, all of them and those of the current run.
ReportsOf(ctype, level) ==
    {i \in 1..Len(reports) : reports[i].content_type = ctype /\ reports[i].level = level}
ReportsOfRun(ctype, level) == {i \in ReportsOf(ctype, level) : i > run_base}

\* C3: a level without eligible records (no successful DungeonLog row; no
\* RiftDungeonLog row of any grade) never gets a LevelReport, no stored report
\* covers zero records, and a run that returns has gone on past such levels:
\* every level with eligible records has its report from that run.
C3_EmptyWindowSkipped ==
    /\ \A i \in 1..Len(reports) :
          /\ EligibleRows(reports[i].content_type, reports[i].level) # {}
          /\ reports[i].log_count > 0
    /\ pc = "returned" =>
          \A level \in Levels :
              EligibleRows(content_type, level) # {} => ReportsOfRun(content_type, level) # {}

\* C3 witness: a dungeon run has returned; its first level had only failed
\* attempts and got nothing, the level after it got its report.
C3_Witness ==
    /\ pc = "returned"
    /\ content_type = DungeonLog
    /\ levels_of(dungeon_logs) = <<1, 2>>
    /\ EligibleRows(DungeonLog, 1) = {}
    /\ ReportsOf(DungeonLog, 1) = {}
    /\ Cardinality(ReportsOfRun(DungeonLog, 2)) = 1

\* C6: log_count of every LevelReport is the number of log rows that were
\* handed to the aggregators for it (for a rift level: the union of the
\* per-grade windows).
C6_LogCountIsAggregated ==
    \A i \in 1..Len(reports) : reports[i].log_count = Cardinality(audit[i].aggregated)

\* C6 witness: a stored report whose window is smaller than the target's
\* eligible records.
C6_Witness ==
    \E i \in 1..Len(reports) :
        /\ reports[i].log_count >= 1
        /\ reports[i].log_count < Cardinality(EligibleRows(reports[i].content_type, reports[i].level))

IsPrefix(a, b) == Len(a) <= Len(b) /\ SubSeq(b, 1, Len(a)) = a

\* C7: every step leaves the LevelReport rows made so far as they are and only
\* appends; and a run that returns has added exactly one new row for every
\* level with eligible records, whatever rows that level had before.
C7_ReportsOnlyAdded ==
    [][ /\ IsPrefix(reports, reports')
        /\ (pc # "returned" /\ pc' = "returned") =>
              \A level \in Levels :
                  EligibleRows(content_type, level) # {} =>
                      Cardinality(ReportsOfRun(content_type, level)) = 1 ]_vars

\* C7 witness: after a second run over the same log the target has two
\* reports, the older one from the first run.
C7_Witness ==
    /\ pc = "returned"
    /\ runs = 2
    /\ \E level \in Levels :
          /\ Cardinality(ReportsOf(content_type, level)) = 2
          /\ \E i \in ReportsOf(content_type, level) : audit[i].run = 1

\* A stored payload is whole: a per-level report has its summary and one entry
\* per supported drop category; a rift payload has its entry for every grade
\* and the summary entry after them.
Complete(r) ==
    IF r.content_type = DungeonLog
    THEN /\ DOMAIN r.report = {"summary", "drops"}
         /\ DOMAIN r.report.drops = {k \in Range(DROP_TYPES_keys) : has_drop_type(DungeonLog, k)}
    ELSE /\ Len(r.report) = Len(GRADE_CHOICES) + 1
         /\ r.report[Len(r.report)].grade = "summary"
         /\ r.report[Len(r.report)].report # None

\* The levels of the current run the loop is done with.
Processed == {level \in Range(levels_of(LogTable(content_type))) : level \notin Range(todo)}

\* C8: wherever a run stands or was stopped, each level it is done with has
\* exactly one whole LevelReport from this run (none if the level had no
\* eligible records), each level it has not finished has none from this run,
\* and every stored payload is whole.
C8_NoPartialReport ==
    /\ \A i \in 1..Len(reports) : Complete(reports[i])
    /\ runs > 0 =>
          /\ \A level \in Processed :
                Cardinality(ReportsOfRun(content_type, level)) =
                    IF EligibleRows(content_type, level) # {} THEN 1 ELSE 0
          /\ \A level \in Range(todo) : ReportsOfRun(content_type, level) = {}

\* C8 witness: a rift run was stopped inside its second level; the first level
\* has its report from this run, the second has none.
C8_Witness ==
    /\ pc = "crashed"
    /\ content_type = RiftDungeonLog
    /\ todo = <<2>>
    /\ Cardinality(ReportsOfRun(RiftDungeonLog, 1)) = 1
    /\ EligibleRows(RiftDungeonLog, 2) # {}
    /\ ReportsOfRun(RiftDungeonLog, 2) = {}

\* The rows inside the time span at the clock of a window selection.
InSpanIds(qs, at) == Ids(filter_timestamp_gte(qs, at - ReportTimespan))

\* Two reports of one target whose window selections saw the same rows inside
\* the time span (per grade, for a rift level).
SameInSpan(i, j) ==
    IF reports[i].content_type = DungeonLog
    THEN LET qs == filter_level_success(dungeon_logs, reports[i].level)
         IN  InSpanIds(qs, audit[i].nows[1]) = InSpanIds(qs, audit[j].nows[1])
    ELSE \A g \in 1..Len(GRADE_CHOICES) :
            LET qs == filter_level_grade(rift_logs, reports[i].level, GRADE_CHOICES[g][1])
            IN  InSpanIds(qs, audit[i].nows[g]) = InSpanIds(qs, audit[j].nows[g])

SameStatistics(i, j) ==
    /\ reports[i].log_count = reports[j].log_count
    /\ reports[i].report = reports[j].report

SameTarget(i, j) ==
    /\ reports[i].content_type = reports[j].content_type
    /\ reports[i].level = reports[j].level

\* C9 (as claimed): two reports of one target over the unchanged log have the
\* same statistics, whatever the clock was when each window was selected.
C9_SameStatisticsAnyTime ==
    \A i, j \in 1..Len(reports) : SameTarget(i, j) => SameStatistics(i, j)

\* C9 (amended): two reports of one target over the unchanged log have the same
\* statistics and different identifiers whenever both window selections saw
\* the same records inside the time span.
C9_SameStatisticsSameSpan ==
    \A i, j \in 1..Len(reports) :
        (i < j /\ SameTarget(i, j) /\ SameInSpan(i, j)) =>
            /\ SameStatistics(i, j)
            /\ reports[i].id # reports[j].id

\* C9 witness: a target reported twice, at different clocks that saw the same
\* records inside the time span, by a window that leaves older records out.
C9_Witness ==
    \E i, j \in 1..Len(reports) :
        /\ i < j
        /\ SameTarget(i, j)
        /\ SameInSpan(i, j)
        /\ audit[i].nows # audit[j].nows
        /\ reports[i].log_count < Cardinality(EligibleRows(reports[i].content_type, reports[i].level))

RiftReports == {i \in 1..Len(reports) : reports[i].content_type = RiftDungeonLog}
\* The grades of a rift level that have records.
GradesWithRecords(level) ==
    {g \in 1..Len(GRADE_CHOICES) : filter_level_grade(rift_logs, level, GRADE_CHOICES[g][1]) # <<>>}

\* C10 (as claimed): a rift payload ends with exactly one "summary" entry, and
\* when exactly two grades have records it is the 3-element sequence of those
\* two grades and the summary.
C10_TwoGradesThreeEntries ==
    \A i \in RiftReports :
        LET payload == reports[i].report
            with == GradesWithRecords(reports[i].level)
        IN  /\ payload[Len(payload)].grade = "summary"
            /\ \A k \in 1..(Len(payload) - 1) : payload[k].grade # "summary"
            /\ Cardinality(with) = 2 =>
                  /\ Len(payload) = 3
                  /\ {payload[1].grade, payload[2].grade} = {GRADE_CHOICES[g][2] : g \in with}

\* C10 (amended): a rift payload has one {grade, report} entry for every grade
\* of GRADE_CHOICES, in that order, whose report is None exactly for the grades
\* without records, followed by exactly one "summary" entry; and each run adds
\* at most one such report per level.
C10_EntryPerGradeChoice ==
    /\ \A i \in RiftReports :
          LET payload == reports[i].report
          IN  /\ Len(payload) = Len(GRADE_CHOICES) + 1
              /\ \A g \in 1..Len(GRADE_CHOICES) :
                    /\ payload[g].grade = GRADE_CHOICES[g][2]
                    /\ payload[g].report = None <=> g \notin GradesWithRecords(reports[i].level)
              /\ payload[Len(payload)].grade = "summary"
              /\ payload[Len(payload)].report # None
    /\ \A i, j \in RiftReports :
          (reports[i].level = reports[j].level /\ audit[i].run = audit[j].run) => i = j

\* C10 witness: a stored rift report of a level where exactly two grades have records.
C10_Witness ==
    \E i \in RiftReports :
        /\ Cardinality(GradesWithRecords(reports[i].level)) = 2
        /\ Len(reports[i].report) = Len(GRADE_CHOICES) + 1

\* ------------------------------------------------------------------ rift payload
\* The sections of the trailing "summary" entry of a rift payload, one per grade.
SummarySections(payload) == payload[Len(payload)].report[1]

\* The count the summary section lists for an item / a monster; the rows about it.
SummaryItemRows(section, item) ==
    {d \in section.drops : d.type = "item" /\ d.name = GameItem[item].name}
SummaryMonsterRows(section, monster) ==
    {d \in section.drops : d.type = "monster" /\ d.name = Monster[monster].name}

RECURSIVE SumCounts(_)
SumCounts(rows) ==
    IF rows = {} THEN 0
    ELSE LET d == CHOOSE x \in rows : TRUE IN d.count + SumCounts(rows \ {d})

\* The count of an item / a monster in a grade's own report: 0 when the grade
\* has no report or its report has no statistics for the category.
OwnItemCount(entry, item) ==
    IF entry.report = None THEN 0
    ELSE LET stats == entry.report[1].drops[ItemDrop_RELATED_NAME]
         IN  IF stats = None THEN 0
             ELSE SumCounts({d \in stats[1] : d.name = GameItem[item].name})
OwnMonsterCount(entry, monster) ==
    IF entry.report = None THEN 0
    ELSE LET stats == entry.report[1].drops[MonsterDrop_RELATED_NAME]
         IN  IF stats = None THEN 0
             ELSE SumCounts({d \in stats[1].monsters.data : d.key = monster})

RECURSIVE SumOver(_, _)
SumOver(f, n) == IF n = 0 THEN 0 ELSE f[n] + SumOver(f, n - 1)

\* The items and monsters a rift payload mentions, in a grade's own report or
\* in a section of the summary; for any other both counts are 0 in every grade.
MentionedItems(payload) ==
    {item \in DOMAIN GameItem :
        \E g \in 1..Len(GRADE_CHOICES) :
            \/ OwnItemCount(payload[g], item) > 0
            \/ SummaryItemRows(SummarySections(payload)[g], item) # {}}
MentionedMonsters(payload) ==
    {monster \in DOMAIN Monster :
        \E g \in 1..Len(GRADE_CHOICES) :
            \/ OwnMonsterCount(payload[g], monster) > 0
            \/ SummaryMonsterRows(SummarySections(payload)[g], monster) # {}}

\* C11: in every stored rift report, for every item and monster the counts of
\* the summary, summed over its grade sections, equal the sum over the grades
\* of the count in the grade's own report; and whatever any grade dropped has
\* exactly one row in every grade section of the summary, whose count is the
\* grade's own count, 0 where that grade never dropped it.
C11_SummaryReconciles ==
    \A i \in RiftReports :
        LET payload == reports[i].report
            sections == SummarySections(payload)
            G == Len(GRADE_CHOICES)
        IN  /\ Len(sections) = G
            /\ \A g \in 1..G : sections[g].grade = payload[g].grade
            /\ \A item \in MentionedItems(payload) :
                  LET own == [g \in 1..G |-> OwnItemCount(payload[g], item)]
                      listed == [g \in 1..G |-> SummaryItemRows(sections[g], item)]
                  IN  /\ SumOver([g \in 1..G |-> SumCounts(listed[g])], G) = SumOver(own, G)
                      /\ (\E g \in 1..G : own[g] > 0) =>
                            \A g \in 1..G :
                                /\ Cardinality(listed[g]) = 1
                                /\ \A d \in listed[g] : d.count = own[g]
            /\ \A monster \in MentionedMonsters(payload) :
                  LET own == [g \in 1..G |-> OwnMonsterCount(payload[g], monster)]
                      listed == [g \in 1..G |-> SummaryMonsterRows(sections[g], monster)]
                  IN  /\ SumOver([g \in 1..G |-> SumCounts(listed[g])], G) = SumOver(own, G)
                      /\ (\E g \in 1..G : own[g] > 0) =>
                            \A g \in 1..G :
                                /\ Cardinality(listed[g]) = 1
                                /\ \A d \in listed[g] : d.count = own[g]

\* C11 witness: a stored rift report of two grades with records, where one
\* grade dropped an item the other never dropped and the summary lists it
\* under both, with count 0 under the other.
C11_Witness ==
    \E i \in RiftReports :
        LET payload == reports[i].report
            sections == SummarySections(payload)
        IN  \E g, h \in 1..Len(GRADE_CHOICES) : \E item \in DOMAIN GameItem :
                /\ payload[g].report # None
                /\ payload[h].report # None
                /\ OwnItemCount(payload[g], item) > 0
                /\ OwnItemCount(payload[h], item) = 0
                /\ \E d \in SummaryItemRows(sections[h], item) : d.count = 0

\* ------------------------------------------------------------------ SpecWindow
\* Record streams of one target: ids 1..n, a timestamp each, most recent first.
Streams ==
    UNION { { [i \in 1..n |-> [id |-> i, timestamp |-> ts[i]]] : ts \in [1..n -> 0..MaxTs] }
            : n \in 0..MaxLen }

InitWindow ==
    /\ arg \in { [qs |-> qs, now |-> n, report_timespan |-> s, minimum_count |-> m] :
                 qs \in {q \in Streams : IsOrdered(q)},
                 n \in 0..MaxNow, s \in 0..MaxSpan, m \in 0..MaxMin }
    /\ ret = None
    /\ NoStore
    /\ NoRun

SelectWindow ==
    /\ ret = None
    /\ ret' = Some(_records_to_report(arg.qs, arg.now, arg.report_timespan, arg.minimum_count))
    /\ UNCHANGED <<arg, store, proc>>

NextWindow == SelectWindow

SpecWindow == InitWindow /\ [][NextWindow]_vars

\* ------------------------------------------------------------------ SpecReport
\* Windows handed to level_drop_report and grade_summary_report: log rows of
\* one level, each with up to MaxDrops item and monster drop rows.
DropKinds ==
    { [type |-> "items", item |-> "X", quantity |-> 1],
      [type |-> "items", item |-> "X", quantity |-> 2],
      [type |-> "items", item |-> "Y", quantity |-> 1],
      [type |-> "monsters", monster |-> "M1", grade |-> 3],
      [type |-> "monsters", monster |-> "M2", grade |-> 3] }

WindowDrops == UNION { [1..n -> DropKinds] : n \in 0..MaxDrops }
WindowRows == [grade : GradeIds, drops : WindowDrops]
Windows == UNION { { WithIds(t, 0) : t \in [1..n -> WindowRows] } : n \in 1..MaxWindow }

\* Rune drop rows handed to get_rune_report: up to MaxRunes runes, each under
\* its own log row.
RuneValues == {0, 999, 1000, 1200, 1500, 2000, 2400}
RuneKinds ==
    { [type |-> "runes", rune_type |-> "Energy", slot |-> 1, stars |-> 6,
       quality |-> q, value |-> v] : q \in {"Magic", "Rare"}, v \in RuneValues }
RuneHandles ==
    UNION { { [i \in 1..n |-> [log |-> i, drop |-> t[i]]] : t \in [1..n -> RuneKinds] }
            : n \in 0..MaxRunes }

\* A drops dict handed to get_report_summary: the resolver's dict of a window,
\* as it is or with one more key put first or last.
with_key(drops, extra, at) ==
    IF at = "none" THEN drops
    ELSE [keys |-> IF at = "first" THEN <<extra>> \o drops.keys ELSE Append(drops.keys, extra),
          qs |-> [k \in DOMAIN drops.qs \cup {extra} |->
                     IF k = extra THEN <<>> ELSE drops.qs[k]]]

InitReport ==
    /\ \/ arg \in [fn : {"level_drop_report", "grade_summary_report"}, qs : Windows]
       \/ arg \in [fn : {"get_rune_report"}, qs : RuneHandles]
       \/ arg \in [fn : {"get_report_summary"}, qs : Windows,
                    model : {DungeonLog, RiftDungeonLog},
                    extra : {"artifacts"}, at : {"none", "first", "last"}]
    /\ ret = None
    /\ NoStore
    /\ NoRun

BuildLevelReport ==
    /\ ret = None
    /\ arg.fn = "level_drop_report"
    /\ ret' = Some(level_drop_report(DungeonLog, arg.qs))
    /\ UNCHANGED <<arg, store, proc>>

BuildGradeSummary ==
    /\ ret = None
    /\ arg.fn = "grade_summary_report"
    /\ ret' = Some(grade_summary_report(RiftDungeonLog, arg.qs, GRADE_CHOICES))
    /\ UNCHANGED <<arg, store, proc>>

\* get_rune_report on a handle.  The histogram of line 355 is built by
\* django_pivot, which reads bins[-1]: on an empty list of bins the call either
\* raises IndexError or, in a build that tolerates it, gives a histogram
\* without buckets.
BuildRuneReport ==
    /\ ret = None
    /\ arg.fn = "get_rune_report"
    /\ \/ /\ Count(arg.qs) > 0 /\ value_bins(arg.qs) = <<>>
          /\ ret' = Raise("IndexError")
       \/ ret' = Some(get_rune_report(arg.qs, Count(arg.qs)))
    /\ UNCHANGED <<arg, store, proc>>

\* get_report_summary on a drops dict: the summary, or the exception of line 158.
BuildSummary ==
    /\ ret = None
    /\ arg.fn = "get_report_summary"
    /\ LET drops == with_key(get_drop_querysets(arg.model, arg.qs), arg.extra, arg.at)
       IN  ret' = IF summary_raises(drops)
                  THEN get_report_summary(drops, Count(arg.qs))
                  ELSE Some(get_report_summary(drops, Count(arg.qs)))
    /\ UNCHANGED <<arg, store, proc>>

NextReport == BuildLevelReport \/ BuildGradeSummary \/ BuildRuneReport \/ BuildSummary

SpecReport == InitReport /\ [][NextReport]_vars

\* The rate rows of a built per-level report: the item and nat-stars rows of
\* the category aggregators, the item and monster rows of the summary table.
Built(fn) == ret # None /\ arg.fn = fn
OptionRows(opt) == IF opt = None THEN {} ELSE opt[1]
AggregatorItemRows == OptionRows(ret[1].drops["items"])
AggregatorStarRows ==
    IF ret[1].drops["monsters"] = None THEN {} ELSE ret[1].drops["monsters"][1].nat_stars.data
SummaryRows(drop_type) ==
    IF drop_type \in DOMAIN ret[1].summary.table THEN ret[1].summary.table[drop_type] ELSE {}

\* frac = n / d * 100 and frac = n / d, on exact quotients
IsPercentOf(frac, n, d) == frac.num * d = n * 100 * frac.den
IsRatioOf(frac, n, d) == frac.num * d = n * frac.den
InPercentRange(frac) == frac.den > 0 /\ 0 <= frac.num /\ frac.num <= 100 * frac.den

\* sum of the quantities an averaged row stands for
RowSum(row) == row.avg.num

\* C4: in a per-level report every drop_chance is count / (log rows of the
\* window) * 100 and every avg_per_run is sum / (log rows of the window), in the
\* category aggregators as in the summary table.
C4_RatesPerLogRecord ==
    Built("level_drop_report") =>
        LET total_log_count == Len(arg.qs) IN
        /\ \A row \in AggregatorItemRows \cup SummaryRows("items") :
              /\ IsPercentOf(row.drop_chance, row.count, total_log_count)
              /\ IsRatioOf(row.avg_per_run, RowSum(row), total_log_count)
        /\ \A row \in AggregatorStarRows \cup SummaryRows("monsters") :
              IsPercentOf(row.drop_chance, row.count, total_log_count)

\* The same for the summary table alone, which is handed the window's count.
SummaryRatesPerLogRecord ==
    Built("level_drop_report") =>
        /\ \A row \in SummaryRows("items") :
              /\ IsPercentOf(row.drop_chance, row.count, Len(arg.qs))
              /\ IsRatioOf(row.avg_per_run, RowSum(row), Len(arg.qs))
        /\ \A row \in SummaryRows("monsters") :
              IsPercentOf(row.drop_chance, row.count, Len(arg.qs))

\* C5: every drop_chance of a built report lies in [0, 100]: summary table,
\* category aggregators and per-grade summary.
C5_DropChanceInRange ==
    /\ Built("level_drop_report") =>
          \A row \in AggregatorItemRows \cup AggregatorStarRows
                     \cup SummaryRows("items") \cup SummaryRows("monsters") :
              InPercentRange(row.drop_chance)
    /\ Built("grade_summary_report") =>
          \A g \in 1..Len(ret[1]) : \A row \in ret[1][g].drops :
              InPercentRange(row.drop_chance)

\* C12: in a built per-level report the statistics of a category are None
\* exactly when the window has no drop row of the category, for every key of
\* the dispatch table.
C12_NoneWhenEmpty ==
    Built("level_drop_report") =>
        /\ DOMAIN ret[1].drops = Range(DROP_TYPES_keys)
        /\ \A key \in DOMAIN ret[1].drops :
              ret[1].drops[key] = None <=> Count(drops_of(arg.qs, key)) = 0

\* The cells of a value histogram and the number of runes counted in them.
RECURSIVE SumCells(_, _)
SumCells(data, cells) ==
    IF cells = {} THEN 0
    ELSE LET c == CHOOSE x \in cells : TRUE
         IN  data[c[1]][c[2]] + SumCells(data, cells \ {c})
Cells(data) == {<<b, q>> : b \in DOMAIN data, q \in {"Magic", "Rare"}} \cap
               UNION {{<<b, q>> : q \in DOMAIN data[b]} : b \in DOMAIN data}

\* C13: get_rune_report on a non-empty handle returns a value histogram whose
\* buckets start at the multiples of 500 from floor(min/1000)*1000 up to
\* ceil(max/1000)*1000, and every rune is counted in exactly one (bucket,
\* quality) cell: for every quality the counts over the buckets add up to the
\* number of runes of that quality.
C13_ValueHistogram ==
    (Built("get_rune_report") /\ Count(arg.qs) > 0) =>
        LET values == {r.drop.value : r \in Range(arg.qs)}
            lo == (MinOf(values) \div 1000) * 1000
            hi == ((MaxOf(values) + 999) \div 1000) * 1000
        IN  /\ Len(ret) = 1
            /\ LET data == ret[1][1].value.data
               IN  /\ DOMAIN data = {b \in lo..hi : b % 500 = 0 /\ b < hi}
                   /\ \A q \in {"Magic", "Rare"} :
                         SumCells(data, {c \in Cells(data) : c[2] = q})
                           = Count(SelectSeq(arg.qs, LAMBDA r : r.drop.quality = q))

\* C14: every key the resolver returns for a log model is a key of DROP_TYPES
\* and has a branch in get_report_summary, so the summary of a resolved drops
\* dict never raises; a drops dict with a key outside the six raises
\* NotImplementedError, wherever the key stands, and no summary is returned.
C14_DispatchClosed ==
    /\ Built("level_drop_report") =>
          LET drops == get_drop_querysets(DungeonLog, arg.qs)
          IN  /\ Range(drops.keys) \subseteq Range(DROP_TYPES_keys)
              /\ \A k \in Range(drops.keys) : summary_recognizes(k)
              /\ DOMAIN ret[1].drops = Range(drops.keys)
    /\ Built("get_report_summary") =>
          LET drops == get_drop_querysets(arg.model, arg.qs)
          IN  /\ Range(drops.keys) \subseteq Range(DROP_TYPES_keys)
              /\ \A k \in Range(drops.keys) : summary_recognizes(k)
              /\ arg.at = "none" =>
                    /\ Len(ret) = 1
                    /\ DOMAIN ret[1].table \subseteq Range(drops.keys)
                    /\ Len(ret[1].chart) = Len(drops.keys)
              /\ arg.at # "none" => ret = Raise("NotImplementedError")

\* C14 witness: get_report_summary was handed a drops dict whose last key is
\* outside the six, after keys with drop rows, and raised.
C14_Witness ==
    /\ Built("get_report_summary")
    /\ arg.at = "last"
    /\ Count(drops_of(arg.qs, ItemDrop_RELATED_NAME)) > 0
    /\ ret = Raise("NotImplementedError")

\* The records of the stream inside the time span.
InSpan == {r \in Range(arg.qs) : r.timestamp >= arg.now - arg.report_timespan}
Selected == ret # None
\* k = min(minimum, total available)
Wanted == IF arg.minimum_count < Len(arg.qs) THEN arg.minimum_count ELSE Len(arg.qs)

\* C1: when the number of records with timestamp >= now - span is >= the
\* minimum (equality included), the returned window is exactly the set of
\* records with timestamp >= now - span, none added, none dropped, none twice.
C1_TimeBounded ==
    (Selected /\ Cardinality(InSpan) >= arg.minimum_count) =>
        /\ Range(ret[1]) = InSpan
        /\ Len(ret[1]) = Cardinality(InSpan)

\* C1 witness: the boundary case, count == minimum, with older records left out.
C1_Witness ==
    /\ Selected
    /\ arg.minimum_count >= 2
    /\ Cardinality(InSpan) = arg.minimum_count
    /\ Len(arg.qs) > arg.minimum_count
    /\ Len(ret[1]) = arg.minimum_count

\* C2 (as claimed): when fewer than the minimum records are inside the time
\* span, the window has exactly min(minimum, total) records and they are the
\* most recent ones, for every stream.
C2_CountBoundedExact ==
    (Selected /\ Cardinality(InSpan) < arg.minimum_count) =>
        /\ Len(ret[1]) = Wanted
        /\ ret[1] = SubSeq(arg.qs, 1, Wanted)

\* C2 (amended): when fewer than the minimum records are inside the time span,
\* the window is the k = min(minimum, total) most recent records together with
\* every further record that shares the timestamp of the k-th one: it is a
\* most-recent prefix of the stream of at least k records, every record in it
\* is at least as recent as the k-th, and every record left out is older.
C2_CountBoundedWithTies ==
    (Selected /\ Cardinality(InSpan) < arg.minimum_count) =>
        LET W == ret[1] IN
        /\ Len(W) >= Wanted
        /\ W = SubSeq(arg.qs, 1, Len(W))
        /\ \A i \in 1..Len(W) : arg.qs[i].timestamp >= arg.qs[Wanted].timestamp
        /\ \A i \in (Len(W) + 1)..Len(arg.qs) : arg.qs[i].timestamp < arg.qs[Wanted].timestamp

\* C2 witness: the count-bounded branch on a stream where a record beyond the
\* k-th shares its timestamp, so the window is larger than the minimum.
C2_Witness ==
    /\ Selected
    /\ Cardinality(InSpan) < arg.minimum_count
    /\ Len(ret[1]) > arg.minimum_count
    /\ Len(ret[1]) < Len(arg.qs)

====
